---- MODULE Spec2Model ----
(***************************************************************************)
(* Skill tracker (src/app.py): the skill store, the session store, the     *)
(* streak engine and the badge engine, as a state machine over the SQLite  *)
(* tables they share.                                                      *)
(*                                                                         *)
(* Representation.                                                         *)
(*  - A table is a sequence of rows in rowid order.                        *)
(*  - A nullable column holds <<>> for NULL and <<v>> for the value v.     *)
(*  - A date text written 'YYYY-MM-DD HH:MM:SS' with every field at full   *)
(*    width is held as <<t>>, t the second it denotes; a text with k > 0   *)
(*    fields written without their leading zero ('2024-1-5 3:04:05'),      *)
(*    which strptime reads and SQLite's DATE() does not, as <<t, k>>; a    *)
(*    text strptime rejects as <<>>.                                       *)
(*  - A duration text is held as <<h>> when float() reads the number h     *)
(*    (whole hours here), and as <<>> when float() raises ValueError.      *)
(***************************************************************************)
EXTENDS Integers, Sequences, FiniteSets, TLC

VARIABLES
    db,     \* the database: skills, practice_sessions, streaks, badges, earned_badges
    last,   \* the last service call: its name, arguments, outcome and the database before it
    ops,    \* number of service calls made since the initial state
    conns,  \* per thread: the recording it is executing on its own connection
    lock    \* the thread whose connection holds the database's write lock, or 0

vars == <<db, last, ops, conns, lock>>

NULL == <<>>

Min(S) == CHOOSE x \in S : \A y \in S : x <= y

Max2(a, b) == IF a >= b THEN a ELSE b

(***************************************************************************)
(* Bounds of the model.                                                    *)
(***************************************************************************)
MaxOps == 2

(***************************************************************************)
(* Time.                                                                   *)
(***************************************************************************)
SecondsPerHour == 60 * 60
SecondsPerDay == 24 * SecondsPerHour

\* timedelta(hours=36), in seconds
Hours36 == 36 * SecondsPerHour

\* SQLite DATE(date): <<the calendar day>> of a date text SQLite reads, NULL
\* for any other text
DATE(date) == IF Len(date) = 1 THEN <<date[1] \div SecondsPerDay>> ELSE <<>>

\* Midnight of the day on which every prepared history ends
T0 == 400 * SecondsPerDay

\* The timestamps a caller submits: T0, T0 + 36h0m0s, T0 + 36h0m1s
Times == {T0, T0 + Hours36, T0 + Hours36 + 1}

\* T0 + 36h0m0s written with one field without its leading zero
Unpadded == <<T0 + Hours36, 1>>

\* The date texts a caller submits that strptime reads
DateTexts == {<<t>> : t \in Times} \cup {Unpadded}

(***************************************************************************)
(* The badge catalog.                                                      *)
(***************************************************************************)
default_badges ==
    << "first_practice", "7_day_streak", "30_day_streak", "100_day_streak",
       "10_hours", "100_hours", "expert_level", "5_skills", "10_skills",
       "25_skills", "365_days", "1000_hours" >>

\* The criteria stored with skill_id NULL
GlobalCriteria == {"5_skills", "10_skills", "25_skills", "365_days", "1000_hours"}

SkillCriteria == {default_badges[i] : i \in DOMAIN default_badges} \ GlobalCriteria

\* The tables CREATE TABLE IF NOT EXISTS makes in a new file
new_file ==
    [ skills            |-> <<>>,
      seq_skills        |-> 0,
      practice_sessions |-> <<>>,
      streaks           |-> <<>>,
      badges            |-> <<>>,
      earned_badges     |-> <<>> ]

\* Variant of DatabaseManager.init_db that inserts the default badges without
\* looking at the table
DatabaseManager_init_db_seeds_again(d) ==
    [d EXCEPT !.badges = @ \o default_badges]

\* DatabaseManager.init_db on a database whose tables exist:
\* SELECT COUNT(*) FROM badges, and the executemany INSERT if it is 0
DatabaseManager_init_db(d) ==
    IF Len(d.badges) = 0 THEN [d EXCEPT !.badges = @ \o default_badges] ELSE d

\* DatabaseManager.init_db on a new file: empty tables, the catalog seeded
init_db == DatabaseManager_init_db(new_file)

(***************************************************************************)
(* Table helpers.                                                          *)
(***************************************************************************)
\* rowids of the rows of table tbl with skill_id = id
RowsOf(tbl, id) == {i \in DOMAIN tbl : tbl[i].skill_id = id}

\* DELETE FROM tbl WHERE skill_id = ?
DeleteWhere(tbl, id) == SelectSeq(tbl, LAMBDA row : row.skill_id # id)

\* UPDATE tbl SET ... WHERE ...: set[i] replaces row i, for each rowid i of set
Update(tbl, set) ==
    [i \in DOMAIN tbl |-> IF i \in DOMAIN set THEN set[i] ELSE tbl[i]] \o <<>>

\* SELECT * FROM skills WHERE id = ?
SkillRows(d, skill_id) == {i \in DOMAIN d.skills : d.skills[i].id = skill_id}

SkillExists(d, skill_id) == SkillRows(d, skill_id) # {}

(***************************************************************************)
(* Streak engine: PracticeSession.update_streak.                           *)
(***************************************************************************)
\* The row cursor.fetchone() returns for
\* SELECT ... FROM streaks WHERE skill_id = ?  (the first in rowid order)
streak_info(d, skill_id) == d.streaks[Min(RowsOf(d.streaks, skill_id))]

\* INSERT INTO streaks (...) VALUES (?, 1, 1, ?)
new_streak_row(skill_id, date) ==
    [ skill_id |-> skill_id, current_streak |-> 1, longest_streak |-> 1,
      last_practice_date |-> date ]

\* UPDATE streaks SET current_streak = ?, longest_streak = ?, last_practice_date = ?
continue_streak(row, new_streak, new_longest, date) ==
    [row EXCEPT !.current_streak = new_streak,
                !.longest_streak = new_longest,
                !.last_practice_date = date]

\* Variant of the reset branch that also writes longest_streak
reset_streak_drops_longest(row, date) ==
    [row EXCEPT !.current_streak = 1, !.longest_streak = 1, !.last_practice_date = date]

\* UPDATE streaks SET current_streak = 1, last_practice_date = ?
reset_streak(row, date) ==
    [row EXCEPT !.current_streak = 1, !.last_practice_date = date]

\* Variant of the first-practice branch that leaves longest_streak alone
first_practice_keeps_longest(row, date) ==
    [row EXCEPT !.current_streak = 1, !.last_practice_date = date]

\* UPDATE streaks SET current_streak = 1, longest_streak = 1, last_practice_date = ?
first_practice(row, date) ==
    [row EXCEPT !.current_streak = 1, !.longest_streak = 1, !.last_practice_date = date]

\* Variant of the test that takes a session dated before the last practice
\* as not consecutive
consecutive_forward_only(time_diff) == 0 <= time_diff /\ time_diff <= Hours36

\* time_diff <= timedelta(hours=36): the practice was consecutive
consecutive(time_diff) == time_diff <= Hours36

\* SELECT current_streak, longest_streak, last_practice_date FROM streaks
\* WHERE skill_id = ?, fetchone(): <<the row>>, or <<>> for None
select_streak(d, skill_id) ==
    IF RowsOf(d.streaks, skill_id) = {} THEN <<>> ELSE <<streak_info(d, skill_id)>>

\* The INSERT or UPDATE that update_streak issues after fetchone() returned
\* fetched
write_streak(d, skill_id, date, fetched) ==
    IF fetched = <<>>
    THEN \* Initialize streak if it doesn't exist
         [d EXCEPT !.streaks = Append(@, new_streak_row(skill_id, date))]
    ELSE LET info == fetched[1]
         IN  IF info.last_practice_date # NULL
             THEN LET time_diff == date[1] - info.last_practice_date[1]
                  IN  IF consecutive(time_diff)
                      THEN \* Continue streak
                           LET new_streak  == info.current_streak + 1
                               new_longest == Max2(new_streak, info.longest_streak)
                           IN  [d EXCEPT !.streaks =
                                   Update(@, [i \in RowsOf(@, skill_id) |->
                                       continue_streak(@[i], new_streak, new_longest, date)])]
                      ELSE \* Reset streak
                           [d EXCEPT !.streaks =
                               Update(@, [i \in RowsOf(@, skill_id) |->
                                              reset_streak(@[i], date)])]
             ELSE \* First practice for this skill
                  [d EXCEPT !.streaks =
                      Update(@, [i \in RowsOf(@, skill_id) |->
                                     first_practice(@[i], date)])]

update_streak(d, skill_id, date) ==
    write_streak(d, skill_id, date, select_streak(d, skill_id))

(***************************************************************************)
(* Badge engine: PracticeSession.check_badge_achievements.                 *)
(***************************************************************************)
RECURSIVE SumHours(_)
SumHours(tbl) == IF tbl = <<>> THEN 0 ELSE Head(tbl).total_hours + SumHours(Tail(tbl))

\* Variant of the list whose thresholds must be exceeded, not reached
badges_to_check_exceeding(d, skill_id) ==
    LET total_hours == IF SkillExists(d, skill_id)
                       THEN d.skills[Min(SkillRows(d, skill_id))].total_hours ELSE 0
        proficiency == IF SkillExists(d, skill_id)
                       THEN d.skills[Min(SkillRows(d, skill_id))].proficiency ELSE ""
        current_streak == IF RowsOf(d.streaks, skill_id) # {}
                          THEN streak_info(d, skill_id).current_streak ELSE 0
        skills_count == Len(d.skills)
        sessions_count == Cardinality(RowsOf(d.practice_sessions, skill_id))
        practice_days ==
            \* COUNT(DISTINCT ...) leaves the NULLs out
            Cardinality({DATE(d.practice_sessions[i].date) :
                            i \in DOMAIN d.practice_sessions} \ {<<>>})
        total_all_hours == SumHours(d.skills)
    IN  << <<"first_practice", sessions_count >= 1>>,
           <<"7_day_streak", current_streak > 7>>,
           <<"30_day_streak", current_streak > 30>>,
           <<"100_day_streak", current_streak > 100>>,
           <<"10_hours", total_hours > 10>>,
           <<"100_hours", total_hours > 100>>,
           <<"expert_level", proficiency = "Expert">>,
           <<"5_skills", skills_count > 5>>,
           <<"10_skills", skills_count > 10>>,
           <<"25_skills", skills_count > 25>>,
           <<"365_days", practice_days > 365>>,
           <<"1000_hours", total_all_hours > 1000>> >>

\* The (criteria, condition) list, on the values read at evaluation time
badges_to_check(d, skill_id) ==
    LET total_hours == IF SkillExists(d, skill_id)
                       THEN d.skills[Min(SkillRows(d, skill_id))].total_hours ELSE 0
        proficiency == IF SkillExists(d, skill_id)
                       THEN d.skills[Min(SkillRows(d, skill_id))].proficiency ELSE ""
        current_streak == IF RowsOf(d.streaks, skill_id) # {}
                          THEN streak_info(d, skill_id).current_streak ELSE 0
        skills_count == Len(d.skills)
        sessions_count == Cardinality(RowsOf(d.practice_sessions, skill_id))
        practice_days ==
            \* COUNT(DISTINCT ...) leaves the NULLs out
            Cardinality({DATE(d.practice_sessions[i].date) :
                            i \in DOMAIN d.practice_sessions} \ {<<>>})
        total_all_hours == SumHours(d.skills)
    IN  << <<"first_practice", sessions_count >= 1>>,
           <<"7_day_streak", current_streak >= 7>>,
           <<"30_day_streak", current_streak >= 30>>,
           <<"100_day_streak", current_streak >= 100>>,
           <<"10_hours", total_hours >= 10>>,
           <<"100_hours", total_hours >= 100>>,
           <<"expert_level", proficiency = "Expert">>,
           <<"5_skills", skills_count >= 5>>,
           <<"10_skills", skills_count >= 10>>,
           <<"25_skills", skills_count >= 25>>,
           <<"365_days", practice_days >= 365>>,
           <<"1000_hours", total_all_hours >= 1000>> >>

\* Variant of the lookup without "OR eb.skill_id IS NULL"
already_earned_this_skill_only(d, criteria, skill_id) ==
    \E i \in DOMAIN d.earned_badges :
        /\ d.earned_badges[i].badge_id \in DOMAIN d.badges
        /\ d.badges[d.earned_badges[i].badge_id] = criteria
        /\ d.earned_badges[i].skill_id = <<skill_id>>

\* Variant of the lookup without "eb.skill_id = ?"
already_earned_other_skill(d, criteria, skill_id) ==
    \E i \in DOMAIN d.earned_badges :
        /\ d.earned_badges[i].badge_id \in DOMAIN d.badges
        /\ d.badges[d.earned_badges[i].badge_id] = criteria
        /\ d.earned_badges[i].skill_id = NULL

\* SELECT eb.id FROM earned_badges eb JOIN badges b ON eb.badge_id = b.id
\* WHERE b.criteria = ? AND (eb.skill_id = ? OR eb.skill_id IS NULL)
already_earned(d, criteria, skill_id) ==
    \E i \in DOMAIN d.earned_badges :
        /\ d.earned_badges[i].badge_id \in DOMAIN d.badges
        /\ d.badges[d.earned_badges[i].badge_id] = criteria
        /\ \/ d.earned_badges[i].skill_id = <<skill_id>>
           \/ d.earned_badges[i].skill_id = NULL

\* Variant that stores the skill id with every badge
earned_skill_id_always_set(criteria, skill_id) == <<skill_id>>

\* The skill_id stored with a new earned badge
earned_skill_id(criteria, skill_id) ==
    IF criteria \notin GlobalCriteria THEN <<skill_id>> ELSE NULL

\* SELECT id FROM badges WHERE criteria = ?
badge_ids(d, criteria) == {j \in DOMAIN d.badges : d.badges[j] = criteria}

\* One turn of the loop over badges_to_check
award_badge(d, criteria, condition, skill_id) ==
    IF condition /\ ~already_earned(d, criteria, skill_id) /\ badge_ids(d, criteria) # {}
    THEN [d EXCEPT !.earned_badges =
             Append(@, [ badge_id |-> Min(badge_ids(d, criteria)),
                         skill_id |-> earned_skill_id(criteria, skill_id) ])]
    ELSE d

\* The loop over badges_to_check, from turn i on
RECURSIVE award_loop(_, _, _, _)
award_loop(d, checks, i, skill_id) ==
    IF i > Len(checks) THEN d
    ELSE award_loop(award_badge(d, checks[i][1], checks[i][2], skill_id),
                    checks, i + 1, skill_id)

check_badge_achievements(d, skill_id) ==
    award_loop(d, badges_to_check(d, skill_id), 1, skill_id)

(***************************************************************************)
(* PracticeSession.                                                        *)
(***************************************************************************)
\* DatabaseManager.get_cursor: whatever is raised inside the with block is
\* rolled back and re-raised as DatabaseError
get_cursor(raised) == IF raised = "ok" THEN "ok" ELSE "DatabaseError"

\* Variant of PracticeSession.validate that rejects only negative durations
PracticeSession_validate_allows_zero(date, duration) ==
    IF duration = <<>> THEN "ValidationError"
    ELSE IF duration[1] < 0 THEN "ValidationError"
    ELSE IF date = <<>> THEN "ValidationError"
    ELSE "ok"

\* PracticeSession.validate: "ok", or the exception it raises
PracticeSession_validate(date, duration) ==
    IF duration = <<>> THEN "ValidationError"          \* float() raised ValueError
    ELSE IF duration[1] <= 0 THEN "ValidationError"
    ELSE IF date = <<>> THEN "ValidationError"          \* strptime raised ValueError
    ELSE "ok"

\* INSERT INTO practice_sessions (skill_id, date, duration, notes)
insert_session(d, skill_id, date, duration) ==
    [d EXCEPT !.practice_sessions =
        Append(@, [skill_id |-> skill_id, date |-> date, duration |-> duration])]

\* Variant of the aggregate update without its WHERE id = ?
update_aggregates_every_skill(d, skill_id, date, duration) ==
    [d EXCEPT !.skills =
        Update(@, [i \in DOMAIN d.skills |->
            [@[i] EXCEPT !.total_hours = @ + duration,
                         !.last_practiced = date]])]

\* Variant of the aggregate update that sets total_hours to the duration
update_aggregates_overwrites(d, skill_id, date, duration) ==
    [d EXCEPT !.skills =
        Update(@, [i \in SkillRows(d, skill_id) |->
            [@[i] EXCEPT !.total_hours = duration,
                         !.last_practiced = date]])]

\* UPDATE skills SET total_hours = total_hours + ?, last_practiced = ? WHERE id = ?
update_aggregates(d, skill_id, date, duration) ==
    [d EXCEPT !.skills =
        Update(@, [i \in SkillRows(d, skill_id) |->
            [@[i] EXCEPT !.total_hours = @ + duration,
                         !.last_practiced = date]])]

\* Variant of the with block that evaluates the badges before the streak update
save_statements_badges_first(d, skill_id, date, duration) ==
    LET d1 == insert_session(d, skill_id, date, duration)
        d2 == update_aggregates(d1, skill_id, date, duration)
        d3 == check_badge_achievements(d2, skill_id)
        d4 == update_streak(d3, skill_id, date)
    IN  <<d1, d2, d3, d4>>

\* The with block of PracticeSession.save: the database as the connection
\* sees it after each of its four statements
save_statements(d, skill_id, date, duration) ==
    LET d1 == insert_session(d, skill_id, date, duration)
        d2 == update_aggregates(d1, skill_id, date, duration)
        d3 == update_streak(d2, skill_id, date)
        d4 == check_badge_achievements(d3, skill_id)
    IN  <<d1, d2, d3, d4>>

\* PracticeSession.save when nothing raises: the transaction is committed
PracticeSession_save(d, skill_id, date, duration) ==
    save_statements(d, skill_id, date, duration)[4]

\* Variant of get_cursor without conn.rollback(): the writes made before the
\* exception stay
rollback_keeps_writes(committed, uncommitted) == uncommitted

\* conn.rollback(): the writes of the open transaction are undone
rollback(committed, uncommitted) == committed

\* PracticeSession.save when sqlite3 raises at statement raised_at of the with
\* block (1..4), or at conn.commit() (5); raised_at = 0 when nothing raises.
\* get_cursor rolls the transaction back and raises DatabaseError.
PracticeSession_save_raising(d, skill_id, date, duration, raised_at) ==
    LET seen == <<d>> \o save_statements(d, skill_id, date, duration)
    IN  IF raised_at = 0
        THEN [db |-> PracticeSession_save(d, skill_id, date, duration), result |-> "ok"]
        ELSE [db |-> rollback(d, seen[raised_at]),
              result |-> get_cursor("sqlite3.Error")]

\* PracticeService.add_practice_session
add_practice_session(d, skill_id, date, duration, raised_at) ==
    LET v == PracticeSession_validate(date, duration)
    IN  IF v # "ok" THEN [db |-> d, result |-> v]
        ELSE PracticeSession_save_raising(d, skill_id, date, duration[1], raised_at)

(***************************************************************************)
(* Skill.                                                                  *)
(***************************************************************************)
\* SkillService.get_skill: "ok", or the exception that reaches the caller
get_skill(d, skill_id) ==
    get_cursor(IF SkillExists(d, skill_id) THEN "ok" ELSE "SkillNotFoundError")

\* is_numeric_string on the texts used here
is_numeric_string(value) == value \in {"5"}

\* Skill.validate, on the proficiency field (name and category are always given here)
Skill_validate(proficiency) ==
    IF proficiency = "" THEN "ValidationError"
    ELSE IF is_numeric_string(proficiency) THEN "ValidationError"
    ELSE "ok"

\* Skill.save with self.id None: INSERT INTO skills, INSERT INTO streaks
Skill_insert(d, proficiency) ==
    LET id == d.seq_skills + 1
    IN  [d EXCEPT !.seq_skills = id,
                  !.skills = Append(@, [ id |-> id, proficiency |-> proficiency,
                                         total_hours |-> 0, last_practiced |-> NULL ]),
                  !.streaks = Append(@, [ skill_id |-> id, current_streak |-> 0,
                                          longest_streak |-> 0,
                                          last_practice_date |-> NULL ])]

\* Variant of the edit that evaluates the badges of the skill after the UPDATE
Skill_update_awards(d, skill_id, proficiency) ==
    check_badge_achievements(
        [d EXCEPT !.skills =
            Update(@, [i \in SkillRows(d, skill_id) |->
                [@[i] EXCEPT !.proficiency = proficiency]])],
        skill_id)

\* Skill.save with self.id set: UPDATE skills SET ... WHERE id = ?
Skill_update(d, skill_id, proficiency) ==
    [d EXCEPT !.skills =
        Update(@, [i \in SkillRows(d, skill_id) |->
            [@[i] EXCEPT !.proficiency = proficiency]])]

\* Variant of Skill.delete without the DELETE FROM streaks
Skill_delete_keeps_streaks(d, skill_id) ==
    [d EXCEPT !.practice_sessions = DeleteWhere(@, skill_id),
              !.skills = SelectSeq(@, LAMBDA row : row.id # skill_id),
              !.earned_badges = DeleteWhere(@, <<skill_id>>)]

\* Variant of Skill.delete whose last DELETE also matches skill_id IS NULL
Skill_delete_global_badges_too(d, skill_id) ==
    [d EXCEPT !.practice_sessions = DeleteWhere(@, skill_id),
              !.skills = SelectSeq(@, LAMBDA row : row.id # skill_id),
              !.streaks = DeleteWhere(@, skill_id),
              !.earned_badges = SelectSeq(@, LAMBDA row : row.skill_id \notin {<<skill_id>>, NULL})]

\* Skill.delete
Skill_delete(d, skill_id) ==
    [d EXCEPT !.practice_sessions = DeleteWhere(@, skill_id),
              !.skills = SelectSeq(@, LAMBDA row : row.id # skill_id),
              !.streaks = DeleteWhere(@, skill_id),
              !.earned_badges = DeleteWhere(@, <<skill_id>>)]

\* SkillService.create_skill
create_skill(d, proficiency) ==
    LET v == Skill_validate(proficiency)
    IN  IF v # "ok" THEN [db |-> d, result |-> v]
        ELSE [db |-> Skill_insert(d, proficiency), result |-> "ok"]

\* SkillService.update_skill
update_skill(d, skill_id, proficiency) ==
    LET g == get_skill(d, skill_id)
        v == Skill_validate(proficiency)
    IN  IF g # "ok" THEN [db |-> d, result |-> g]
        ELSE IF v # "ok" THEN [db |-> d, result |-> v]
        ELSE [db |-> Skill_update(d, skill_id, proficiency), result |-> "ok"]

\* SkillService.delete_skill
delete_skill(d, skill_id) ==
    LET g == get_skill(d, skill_id)
    IN  IF g # "ok" THEN [db |-> d, result |-> g]
        ELSE [db |-> Skill_delete(d, skill_id), result |-> "ok"]

(***************************************************************************)
(* BadgeService.                                                           *)
(***************************************************************************)
\* ORDER BY b.rarity DESC, b.name on the seeded catalog: the badge ids in
\* the order of (rarity, name) = (uncommon, Consistent Learner), (uncommon,
\* Jack of All Trades), (rare, Dedicated), (rare, Master of Some), (rare,
\* Veteran), (legendary, Master Craftsman), (legendary, Time Traveler),
\* (epic, Expert), (epic, Marathoner), (epic, Skill Collector), (common,
\* First Steps), (common, Hour Master)
catalog_order == <<2, 8, 3, 9, 6, 12, 11, 7, 4, 10, 1, 5>>

\* The rows of badges b LEFT JOIN earned_badges eb ON b.id = eb.badge_id
\* LEFT JOIN skills s ON eb.skill_id = s.id for the badge with id j: one row
\* per earned row of the badge, and one row of NULLs when it has none
joined_rows(d, j) ==
    LET ebs == SelectSeq(d.earned_badges, LAMBDA eb : eb.badge_id = j)
    IN  IF ebs = <<>>
        THEN << [ id |-> j, criteria |-> d.badges[j], earned |-> 0, skill |-> NULL ] >>
        ELSE [k \in DOMAIN ebs |->
                 [ id |-> j, criteria |-> d.badges[j], earned |-> 1,
                   skill |-> IF ebs[k].skill_id # NULL /\ SkillExists(d, ebs[k].skill_id[1])
                             THEN ebs[k].skill_id ELSE NULL ]]

\* The rows of the query from position k of the order on
RECURSIVE listing(_, _)
listing(d, k) ==
    IF k > Len(catalog_order) THEN <<>>
    ELSE joined_rows(d, catalog_order[k]) \o listing(d, k + 1)

\* BadgeService.get_all_badges: c.fetchall()
get_all_badges(d) == listing(d, 1)

(***************************************************************************)
(* Initial states: the database after construction, and databases the      *)
(* service calls above produce from it (each is computed by making the     *)
(* calls, so each is a state the program reaches).                         *)
(***************************************************************************)
\* n calls of create_skill
RECURSIVE CreateSkills(_, _)
CreateSkills(d, n) ==
    IF n = 0 THEN d ELSE CreateSkills(create_skill(d, "Beginner").db, n - 1)

\* n calls of add_practice_session for skill_id, one hour each, one a day,
\* the last of them at time until (the calls are made in time order)
RECURSIVE DailySessions(_, _, _, _)
DailySessions(d, skill_id, n, until) ==
    IF n = 0 THEN d
    ELSE IF n = 1 THEN add_practice_session(d, skill_id, <<until>>, <<1>>, 0).db
    ELSE LET half == n \div 2
         IN  CHOOSE r \in { DailySessions(first, skill_id, half, until) :
                                first \in { DailySessions(d, skill_id, n - half,
                                                          until - half * SecondsPerDay) } } : TRUE

\* One skill practised n days in a row, the last time at T0
Practised(n) == DailySessions(CreateSkills(init_db, 1), 1, n, T0)

\* Five skills, the first of which reached a 7-session streak, lost it, and
\* is back at 6
Regained ==
    DailySessions(DailySessions(CreateSkills(init_db, 5), 1, 7, T0 - 8 * SecondsPerDay),
                  1, 6, T0)

\* Three sessions recorded against skill id 1 before any skill is created,
\* then the skill that receives id 1 is created
RecordedBeforeCreated == CreateSkills(DailySessions(init_db, 1, 3, T0), 1)

\* Five skills, and a session recorded for the fifth
FiveSkillsPractised == DailySessions(CreateSkills(init_db, 5), 5, 1, T0)

\* Seven sessions recorded against skill id 1, a day apart, before any skill
\* is created, then the skill that receives id 1 is created
PractisedBeforeCreated == CreateSkills(DailySessions(init_db, 1, 7, T0), 1)

InitialDatabases ==
    { init_db, PractisedBeforeCreated,
      CreateSkills(init_db, 4),
      CreateSkills(init_db, 9), CreateSkills(init_db, 24),
      Practised(6), Practised(29), Practised(99), Practised(364),
      Regained, RecordedBeforeCreated, FiveSkillsPractised }

(***************************************************************************)
(* Inputs.                                                                 *)
(***************************************************************************)
\* Skill ids a caller passes: the first id, the last id given out, and the
\* next id, which no skill has yet
SkillIdInputs(d) == {i \in {1, d.seq_skills, d.seq_skills + 1} : i >= 1}

\* (date, duration) texts of the sessions PracticeSession.validate accepts
ValidSessions ==
    {<<(<<t>>), (<<5>>)>> : t \in Times}
    \cup {<< <<T0>>, <<700>> >>, <<Unpadded, (<<5>>)>>}

\* (date, duration) texts that PracticeSession.validate rejects: duration
\* '0', '-5', 'abc'; a date that strptime does not read
RejectedSessions ==
    {<< <<T0>>, <<0>> >>, << <<T0>>, <<-5>> >>, << <<T0>>, <<>> >>, << <<>>, <<5>> >>}

SessionInputs == ValidSessions \cup RejectedSessions

\* Where sqlite3 raises during a recording: nowhere (0), at one of the four
\* statements of the with block (1..4: the NOT NULL constraint on a duration
\* 'nan', a locked or full database), or at the commit (5)
RaisedAt == 0 .. 5

\* The session submitted in the calls during which sqlite3 raises
RaisingInputs == {<< <<T0 + Hours36>>, <<5>> >>}

\* (skill_id, date, duration, raised_at) of a recording: every valid session
\* for every skill id; every rejected session for the first id and for the
\* unused id; for the first id, a valid session with sqlite3 raising at each
\* place, and a rejected session submitted while the database would raise
RecordingInputs(d) ==
    {<<skill_id, in[1], in[2], 0>> : skill_id \in SkillIdInputs(d), in \in ValidSessions}
    \cup {<<skill_id, in[1], in[2], 0>> :
              skill_id \in {1, d.seq_skills + 1}, in \in RejectedSessions}
    \cup {<<1, in[1], in[2], raised_at>> :
              in \in RaisingInputs, raised_at \in RaisedAt \ {0}}
    \cup {<< 1, <<T0>>, <<0>>, 1 >>}

\* Proficiency texts a caller passes: two of the levels, a text that is not a
\* level, and the empty text
ProficiencyInputs == {"Beginner", "Expert", "Guru", ""}

\* (skill_id, proficiency) of an edit: Expert and the empty text for every
\* skill id, every proficiency text for the first id
UpdateInputs(d) ==
    {<<skill_id, proficiency>> :
        skill_id \in SkillIdInputs(d), proficiency \in {"Expert", ""}}
    \cup {<<1, proficiency>> : proficiency \in ProficiencyInputs}

(***************************************************************************)
(* The state machine.                                                      *)
(***************************************************************************)
Call(op, skill_id, date, duration, proficiency, raised_at, r) ==
    /\ ops < MaxOps
    /\ db' = r.db
    /\ last' = [ op |-> op, skill_id |-> skill_id, date |-> date, duration |-> duration,
                 proficiency |-> proficiency, raised_at |-> raised_at,
                 result |-> r.result, pre |-> db, returned |-> <<>> ]
    /\ ops' = ops + 1
    /\ UNCHANGED <<conns, lock>>

\* The threads that serve requests, each with its own connection
\* (DatabaseManager._thread_local)
Threads == {1, 2}

\* A thread that is executing no recording
idle ==
    [ pc |-> "idle", skill_id |-> 0, date |-> NULL, duration |-> NULL,
      view |-> <<>>, fetched |-> <<>>, submitted_on |-> <<>>, result |-> "" ]

Init ==
    /\ db \in InitialDatabases
    /\ last = [ op |-> "init_db", skill_id |-> 0, date |-> NULL, duration |-> NULL,
                proficiency |-> "", raised_at |-> 0, result |-> "ok", pre |-> db,
                returned |-> <<>> ]
    /\ ops = 0
    /\ conns = [t \in Threads |-> idle]
    /\ lock = 0

AddPracticeSession ==
    \E in \in RecordingInputs(db) :
        Call("add_practice_session", in[1], in[2], in[3], "", in[4],
             add_practice_session(db, in[1], in[2], in[3], in[4]))

GetSkill ==
    \E skill_id \in SkillIdInputs(db) :
        Call("get_skill", skill_id, NULL, NULL, "", 0,
             [db |-> db, result |-> get_skill(db, skill_id)])

CreateSkill ==
    \E proficiency \in ProficiencyInputs :
        Call("create_skill", 0, NULL, NULL, proficiency, 0, create_skill(db, proficiency))

UpdateSkill ==
    \E in \in UpdateInputs(db) :
        Call("update_skill", in[1], NULL, NULL, in[2], 0,
             update_skill(db, in[1], in[2]))

DeleteSkill ==
    \E skill_id \in SkillIdInputs(db) :
        Call("delete_skill", skill_id, NULL, NULL, "", 0, delete_skill(db, skill_id))

\* The process starts again on the same file: db_manager = DatabaseManager()
\* runs init_db
InitDb ==
    Call("init_db", 0, NULL, NULL, "", 0,
         [db |-> DatabaseManager_init_db(db), result |-> "ok"])

GetAllBadges ==
    /\ ops < MaxOps
    /\ last' = [ op |-> "get_all_badges", skill_id |-> 0, date |-> NULL, duration |-> NULL,
                 proficiency |-> "", raised_at |-> 0, result |-> "ok", pre |-> db,
                 returned |-> get_all_badges(db) ]
    /\ ops' = ops + 1
    /\ UNCHANGED <<db, conns, lock>>

Next ==
    \/ GetAllBadges
    \/ AddPracticeSession
    \/ GetSkill
    \/ CreateSkill
    \/ UpdateSkill
    \/ DeleteSkill
    \/ InitDb

Spec == Init /\ [][Next]_vars

(***************************************************************************)
(* Concurrent recordings: each thread runs PracticeService                 *)
(* .add_practice_session on its own connection, one statement of           *)
(* PracticeSession.save at a time.  The connections are opened by          *)
(* sqlite3.connect with its defaults: a transaction begins before the      *)
(* first INSERT, and SQLite lets one connection at a time write; a         *)
(* connection that cannot get the write lock waits, and after the timeout  *)
(* raises 'database is locked'.                                            *)
(***************************************************************************)
\* Variant of the connection that never waits for the write lock
can_write_unlocked(holder, t) == TRUE

\* The connection of thread t may write: no other connection holds the lock
can_write(holder, t) == holder \in {0, t}

\* The database as the connection of thread t reads it: with its own
\* uncommitted writes when it has made any
seen(t) == IF conns[t].view # <<>> THEN conns[t].view[1] ELSE db

\* The databases on which the concurrent recordings start
ConcurrentDatabases ==
    { CreateSkills(init_db, 1), Practised(6), RecordedBeforeCreated }

\* (date, duration) texts submitted concurrently
ConcurrentInputs ==
    {<<date, (<<5>>)>> : date \in DateTexts} \cup {<< <<T0>>, <<0>> >>}

InitConcurrent ==
    /\ db \in ConcurrentDatabases
    /\ last = [ op |-> "init_db", skill_id |-> 0, date |-> NULL, duration |-> NULL,
                proficiency |-> "", raised_at |-> 0, result |-> "ok", pre |-> db,
                returned |-> <<>> ]
    /\ ops = 0
    /\ conns = [t \in Threads |-> idle]
    /\ lock = 0

\* The outcome of the recording of thread t, as the caller sees it
Returned(t, result) ==
    [ op |-> "add_practice_session", skill_id |-> conns[t].skill_id,
      date |-> conns[t].date, duration |-> conns[t].duration, proficiency |-> "",
      raised_at |-> 0, result |-> result, pre |-> db, returned |-> <<>> ]

\* add_practice_session is called on thread t: session.validate()
Submit(t) ==
    /\ ops < MaxOps
    /\ conns[t].pc \in {"idle", "done"}
    /\ \E skill_id \in SkillIdInputs(db), in \in ConcurrentInputs :
           LET v == PracticeSession_validate(in[1], in[2])
           IN  conns' = [conns EXCEPT ![t] =
                   [ pc |-> IF v = "ok" THEN "insert" ELSE "done",
                     skill_id |-> skill_id, date |-> in[1], duration |-> in[2],
                     view |-> <<>>, fetched |-> <<>>, submitted_on |-> <<db>>,
                     result |-> IF v = "ok" THEN "" ELSE v ]]
    /\ ops' = ops + 1
    /\ UNCHANGED <<db, last, lock>>

\* INSERT INTO practice_sessions: the transaction begins and takes the write lock
Insert(t) ==
    /\ conns[t].pc = "insert"
    /\ can_write(lock, t)
    /\ lock' = t
    /\ conns' = [conns EXCEPT ![t].pc = "aggregate",
                              ![t].view = <<insert_session(seen(t), conns[t].skill_id,
                                                           conns[t].date, conns[t].duration[1])>>]
    /\ UNCHANGED <<db, last, ops>>

\* The wait for the write lock times out: sqlite3.OperationalError, which
\* get_cursor turns into DatabaseError
Busy(t) ==
    /\ conns[t].pc = "insert"
    /\ ~can_write(lock, t)
    /\ conns' = [conns EXCEPT ![t].pc = "done",
                              ![t].result = get_cursor("sqlite3.Error")]
    /\ last' = Returned(t, get_cursor("sqlite3.Error"))
    /\ UNCHANGED <<db, ops, lock>>

\* UPDATE skills SET total_hours = total_hours + ?, last_practiced = ?
Aggregate(t) ==
    /\ conns[t].pc = "aggregate"
    /\ conns' = [conns EXCEPT ![t].pc = "select_streak",
                              ![t].view = <<update_aggregates(seen(t), conns[t].skill_id,
                                                              conns[t].date, conns[t].duration[1])>>]
    /\ UNCHANGED <<db, last, ops, lock>>

\* update_streak: the SELECT and fetchone()
SelectStreak(t) ==
    /\ conns[t].pc = "select_streak"
    /\ conns' = [conns EXCEPT ![t].pc = "write_streak",
                              ![t].fetched = select_streak(seen(t), conns[t].skill_id)]
    /\ UNCHANGED <<db, last, ops, lock>>

\* update_streak: the INSERT or UPDATE computed from the fetched row
WriteStreak(t) ==
    /\ conns[t].pc = "write_streak"
    /\ conns' = [conns EXCEPT ![t].pc = "badges",
                              ![t].view = <<write_streak(seen(t), conns[t].skill_id,
                                                         conns[t].date, conns[t].fetched)>>]
    /\ UNCHANGED <<db, last, ops, lock>>

\* check_badge_achievements
Badges(t) ==
    /\ conns[t].pc = "badges"
    /\ conns' = [conns EXCEPT ![t].pc = "commit",
                              ![t].view = <<check_badge_achievements(seen(t), conns[t].skill_id)>>]
    /\ UNCHANGED <<db, last, ops, lock>>

\* conn.commit(): the writes become the database, the lock is released
Commit(t) ==
    /\ conns[t].pc = "commit"
    /\ db' = conns[t].view[1]
    /\ lock' = IF lock = t THEN 0 ELSE lock
    /\ conns' = [conns EXCEPT ![t].pc = "done", ![t].view = <<>>, ![t].result = "ok"]
    /\ last' = Returned(t, "ok")
    /\ UNCHANGED ops

NextConcurrent ==
    \E t \in Threads :
        \/ Submit(t)
        \/ Insert(t)
        \/ Busy(t)
        \/ Aggregate(t)
        \/ SelectStreak(t)
        \/ WriteStreak(t)
        \/ Badges(t)
        \/ Commit(t)

SpecConcurrent == InitConcurrent /\ [][NextConcurrent]_vars

(***************************************************************************)
(* Vocabulary of the properties.                                           *)
(***************************************************************************)
\* The last call recorded a session
Recorded == last.op = "add_practice_session" /\ last.result = "ok"

\* The last call was the first session recorded for its skill id
FirstSession == Recorded /\ RowsOf(last.pre.practice_sessions, last.skill_id) = {}

\* Seconds from a streak row's last_practice_date to the session just recorded
Gap(row) == last.date[1] - row.last_practice_date[1]

\* rowids of the streak rows the last recording found for its skill (a
\* recording only appends rows, so rowid i names the same row before and after)
FoundRows == RowsOf(last.pre.streaks, last.skill_id)

\* 36 hours, in seconds
ThirtySixHours == 36 * 60 * 60

Criteria(row) == db.badges[row.badge_id]

\* rowids of the earned badges the last call inserted
NewEarned == {i \in DOMAIN db.earned_badges : i > Len(last.pre.earned_badges)}

Earned(d, criteria, skill_id) ==
    \E i \in DOMAIN d.earned_badges :
        /\ d.badges[d.earned_badges[i].badge_id] = criteria
        /\ d.earned_badges[i].skill_id = skill_id

IsPrefix(s, t) == Len(s) <= Len(t) /\ SubSeq(t, 1, Len(s)) = s

(***************************************************************************)
(* C1. In every reachable state every streak row of an existing skill has  *)
(* longest_streak >= current_streak >= 0.                                  *)
(***************************************************************************)
C1_LongestAtLeastCurrent ==
    \A i \in DOMAIN db.streaks :
        SkillExists(db, db.streaks[i].skill_id) =>
            /\ db.streaks[i].longest_streak >= db.streaks[i].current_streak
            /\ db.streaks[i].current_streak >= 0

(***************************************************************************)
(* C2. A recording never lowers longest_streak of a streak row of its      *)
(* skill, and leaves it equal to the maximum of its previous value and the *)
(* row's new current_streak.                                               *)
(***************************************************************************)
C2_LongestIsRunningMax ==
    Recorded =>
        \A i \in FoundRows :
            /\ db.streaks[i].longest_streak >= last.pre.streaks[i].longest_streak
            /\ db.streaks[i].longest_streak =
                   Max2(last.pre.streaks[i].longest_streak, db.streaks[i].current_streak)

(***************************************************************************)
(* C3. A session recorded at most 36 hours after a streak row's            *)
(* last_practice_date (36h0m0s included) sets current_streak to the        *)
(* previous current_streak + 1 and longest_streak to the maximum of the    *)
(* previous longest_streak and the new current_streak; one recorded        *)
(* 36h0m1s after it sets current_streak to 1.                              *)
(***************************************************************************)
C3_ContinueWithin36Hours ==
    Recorded =>
        \A i \in FoundRows :
            LET old == last.pre.streaks[i]
                new == db.streaks[i]
            IN  old.last_practice_date # NULL =>
                    /\ (0 <= Gap(old) /\ Gap(old) <= ThirtySixHours) =>
                           /\ new.current_streak = old.current_streak + 1
                           /\ new.longest_streak =
                                  Max2(old.longest_streak, new.current_streak)
                    /\ Gap(old) = ThirtySixHours + 1 => new.current_streak = 1

(***************************************************************************)
(* C4. A session recorded more than 36 hours after a streak row's          *)
(* last_practice_date sets current_streak to 1, keeps longest_streak and   *)
(* sets last_practice_date to the session's timestamp; after any recording *)
(* the skill has a streak row and each of its streak rows has              *)
(* last_practice_date equal to the session's timestamp.                    *)
(***************************************************************************)
C4_ResetAfter36Hours ==
    Recorded =>
        /\ \A i \in FoundRows :
               LET old == last.pre.streaks[i]
                   new == db.streaks[i]
               IN  (old.last_practice_date # NULL /\ Gap(old) > ThirtySixHours) =>
                       /\ new.current_streak = 1
                       /\ new.longest_streak = old.longest_streak
                       /\ new.last_practice_date = last.date
        /\ RowsOf(db.streaks, last.skill_id) # {}
        /\ \A i \in RowsOf(db.streaks, last.skill_id) :
               db.streaks[i].last_practice_date = last.date

\* a reset happened: a streak longer than 1 was cut to 1, its longest kept
C4_Witness ==
    /\ Recorded
    /\ \E i \in FoundRows :
           /\ last.pre.streaks[i].last_practice_date # NULL
           /\ Gap(last.pre.streaks[i]) > ThirtySixHours
           /\ last.pre.streaks[i].current_streak > 1
           /\ db.streaks[i].current_streak = 1
           /\ db.streaks[i].longest_streak > 1

(***************************************************************************)
(* C5. The first session recorded for a skill id leaves the streak state   *)
(* (1, 1, the session's timestamp): in a new row when the id had no streak *)
(* row, in the existing row when the id had the empty row (0, 0, NULL).    *)
(***************************************************************************)
C5_FirstSession ==
    FirstSession =>
        /\ RowsOf(db.streaks, last.skill_id) # {}
        /\ \A i \in RowsOf(db.streaks, last.skill_id) :
               /\ db.streaks[i].current_streak = 1
               /\ db.streaks[i].longest_streak = 1
               /\ db.streaks[i].last_practice_date = last.date
        /\ FoundRows = {} =>
               Cardinality(RowsOf(db.streaks, last.skill_id)) = 1
        /\ FoundRows # {} =>
               /\ Len(db.streaks) = Len(last.pre.streaks)
               /\ \A i \in FoundRows :
                      /\ last.pre.streaks[i].current_streak = 0
                      /\ last.pre.streaks[i].longest_streak = 0
                      /\ last.pre.streaks[i].last_practice_date = NULL

\* the first session of a created skill, whose row was (0, 0, NULL)
C5_Witness ==
    /\ FirstSession
    /\ SkillExists(db, last.skill_id)
    /\ FoundRows # {}
    /\ streak_info(db, last.skill_id).current_streak = 1

(***************************************************************************)
(* C6. A session recorded with a timestamp earlier than a streak row's     *)
(* last_practice_date resets: current_streak becomes 1 and longest_streak  *)
(* is unchanged.                                                           *)
(***************************************************************************)
C6_OutOfOrderResets ==
    Recorded =>
        \A i \in FoundRows :
            LET old == last.pre.streaks[i]
                new == db.streaks[i]
            IN  (old.last_practice_date # NULL /\ Gap(old) < 0) =>
                    /\ new.current_streak = 1
                    /\ new.longest_streak = old.longest_streak

(***************************************************************************)
(* C7. Earned badges are unique per scope: no two rows have the same badge *)
(* and the same skill_id, and a global badge has at most one row in all.   *)
(***************************************************************************)
C7_EarnedUniquePerScope ==
    \A i, j \in DOMAIN db.earned_badges :
        (i # j /\ db.earned_badges[i].badge_id = db.earned_badges[j].badge_id) =>
            /\ Criteria(db.earned_badges[i]) \notin GlobalCriteria
            /\ db.earned_badges[i].skill_id # db.earned_badges[j].skill_id

\* a streak that was cut comes back to 7 with 7_day_streak earned before, and
\* a global badge earned before holds again on this recording
C7_Witness ==
    /\ Recorded
    /\ Earned(last.pre, "7_day_streak", <<last.skill_id>>)
    /\ streak_info(last.pre, last.skill_id).current_streak = 6
    /\ streak_info(db, last.skill_id).current_streak = 7
    /\ Earned(last.pre, "5_skills", NULL)
    /\ Len(db.skills) >= 5

(***************************************************************************)
(* C8. Badge evaluation is idempotent: evaluating again for the skill of   *)
(* the session just recorded inserts nothing, and in any reachable state   *)
(* a second evaluation for a skill inserts nothing after the first.        *)
(***************************************************************************)
C8_EvaluationIdempotent ==
    /\ Recorded => check_badge_achievements(db, last.skill_id) = db
    /\ \A skill_id \in SkillIdInputs(db) :
           LET once == check_badge_achievements(db, skill_id)
           IN  check_badge_achievements(once, skill_id) = once

\* the evaluation inside the recording inserted a skill badge and a global badge
C8_Witness ==
    /\ Recorded
    /\ \E i \in NewEarned : Criteria(db.earned_badges[i]) \in GlobalCriteria
    /\ \E i \in NewEarned : Criteria(db.earned_badges[i]) \in SkillCriteria
    /\ check_badge_achievements(db, last.skill_id) = db

(***************************************************************************)
(* C9. Every earned row of a global badge has skill_id NULL, every earned  *)
(* row of a skill-scoped badge has a skill_id, and a skill-scoped row      *)
(* inserted by a recording carries the id of the recorded skill.           *)
(***************************************************************************)
C9_ScopeOfSkillId ==
    /\ \A i \in DOMAIN db.earned_badges :
           Criteria(db.earned_badges[i]) \in GlobalCriteria
               <=> db.earned_badges[i].skill_id = NULL
    /\ Recorded =>
           \A i \in NewEarned :
               Criteria(db.earned_badges[i]) \in SkillCriteria =>
                   db.earned_badges[i].skill_id = <<last.skill_id>>

\* a recording for a skill other than skill 1 inserted a global badge
C9_Witness ==
    /\ Recorded
    /\ last.skill_id # 1
    /\ \E i \in NewEarned :
           /\ Criteria(db.earned_badges[i]) \in GlobalCriteria
           /\ db.earned_badges[i].skill_id = NULL
    /\ \E i \in NewEarned : db.earned_badges[i].skill_id = <<last.skill_id>>

(***************************************************************************)
(* C10. A recording, a skill creation and a skill edit keep every earned   *)
(* row; a skill deletion removes exactly the rows whose skill_id is the    *)
(* deleted skill, so no global row is ever removed.                        *)
(***************************************************************************)
C10_NeverRevoked ==
    /\ last.op \in {"add_practice_session", "create_skill", "update_skill"} =>
           IsPrefix(last.pre.earned_badges, db.earned_badges)
    /\ last.op = "delete_skill" =>
           db.earned_badges =
               SelectSeq(last.pre.earned_badges,
                         LAMBDA row : ~(last.result = "ok" /\ row.skill_id = <<last.skill_id>>))

\* a deletion took the skill count under 5 and removed the skill's own badge,
\* and 5_skills is still earned
C10_Witness ==
    /\ last.op = "delete_skill"
    /\ last.result = "ok"
    /\ Len(db.skills) < 5
    /\ Earned(db, "5_skills", NULL)
    /\ Len(db.earned_badges) < Len(last.pre.earned_badges)

(***************************************************************************)
(* Vocabulary of the properties, continued.                                *)
(***************************************************************************)
\* rowids of the earned rows of d for criteria with skill reference skill_id
EarnedRows(d, criteria, skill_id) ==
    {i \in DOMAIN d.earned_badges :
        /\ d.badges[d.earned_badges[i].badge_id] = criteria
        /\ d.earned_badges[i].skill_id = skill_id}

\* the last call inserted an earned row for criteria with skill reference skill_id
NewlyEarned(criteria, skill_id) ==
    \E i \in NewEarned : /\ Criteria(db.earned_badges[i]) = criteria
                          /\ db.earned_badges[i].skill_id = skill_id

\* the skill row with id skill_id in d (ids are the primary key)
SkillRow(d, skill_id) == d.skills[CHOOSE i \in DOMAIN d.skills : d.skills[i].id = skill_id]

RECURSIVE HoursOfFirst(_, _)
HoursOfFirst(d, n) == IF n = 0 THEN 0 ELSE d.skills[n].total_hours + HoursOfFirst(d, n - 1)

Satisfied(d, criteria, skill_id) ==
    LET sessions_of == {i \in DOMAIN d.practice_sessions :
                           d.practice_sessions[i].skill_id = skill_id}
        streak_at_least(n) == \E i \in DOMAIN d.streaks :
                                  /\ d.streaks[i].skill_id = skill_id
                                  /\ d.streaks[i].current_streak >= n
        hours_at_least(n) == \E i \in DOMAIN d.skills :
                                 /\ d.skills[i].id = skill_id
                                 /\ d.skills[i].total_hours >= n
        days == {d.practice_sessions[i].date[1] \div (24 * 60 * 60) :
                    i \in DOMAIN d.practice_sessions}
    IN  CASE criteria = "first_practice" -> Cardinality(sessions_of) >= 1
          [] criteria = "7_day_streak"   -> streak_at_least(7)
          [] criteria = "30_day_streak"  -> streak_at_least(30)
          [] criteria = "100_day_streak" -> streak_at_least(100)
          [] criteria = "10_hours"       -> hours_at_least(10)
          [] criteria = "100_hours"      -> hours_at_least(100)
          [] criteria = "expert_level"   -> \E i \in DOMAIN d.skills :
                                                /\ d.skills[i].id = skill_id
                                                /\ d.skills[i].proficiency = "Expert"
          [] criteria = "5_skills"       -> Len(d.skills) >= 5
          [] criteria = "10_skills"      -> Len(d.skills) >= 10
          [] criteria = "25_skills"      -> Len(d.skills) >= 25
          [] criteria = "365_days"       -> Cardinality(days) >= 365
          [] criteria = "1000_hours"     -> HoursOfFirst(d, Len(d.skills)) >= 1000

\* the skill reference an earned row of criteria carries for skill_id
Scope(criteria, skill_id) ==
    IF criteria \in {"5_skills", "10_skills", "25_skills", "365_days", "1000_hours"}
    THEN NULL ELSE <<skill_id>>

AllCriteria == {default_badges[k] : k \in DOMAIN default_badges}

(***************************************************************************)
(* C12. After a recording for skill s, each of the 12 criteria whose       *)
(* predicate holds on the values the recording left has an earned row in   *)
(* its scope (skill_id = s for a skill criterion, NULL for a global one),  *)
(* and the recording inserted no earned row for a criterion whose          *)
(* predicate is false.                                                     *)
(***************************************************************************)
C12_EarnedIffSatisfied ==
    Recorded =>
        \A criteria \in AllCriteria :
            /\ Satisfied(db, criteria, last.skill_id) =>
                   EarnedRows(db, criteria, Scope(criteria, last.skill_id)) # {}
            /\ ~Satisfied(db, criteria, last.skill_id) =>
                   \A i \in NewEarned : Criteria(db.earned_badges[i]) # criteria

(***************************************************************************)
(* C13. A recording of a valid session during which the session insert,    *)
(* the aggregate update, the streak update, the badge evaluation or the    *)
(* commit raises ends with DatabaseError and leaves the database as it was *)
(* before the call: no session appended, total_hours and last_practiced,   *)
(* the streak rows and the earned badges unchanged.                        *)
(***************************************************************************)
C13_FailureAbortsUnit ==
    (last.op = "add_practice_session" /\ last.raised_at # 0
        /\ last.date # <<>> /\ last.duration # <<>> /\ last.duration[1] > 0) =>
        /\ last.result = "DatabaseError"
        /\ db.practice_sessions = last.pre.practice_sessions
        /\ db.skills = last.pre.skills
        /\ db.streaks = last.pre.streaks
        /\ db.earned_badges = last.pre.earned_badges
        /\ db = last.pre

\* the badge evaluation raised after the session insert, the aggregate update
\* and the streak update of an existing skill had been executed
C13_Witness ==
    /\ last.op = "add_practice_session"
    /\ last.raised_at = 4
    /\ last.result = "DatabaseError"
    /\ SkillExists(last.pre, last.skill_id)
    /\ RowsOf(last.pre.streaks, last.skill_id) # {}
    /\ update_streak(last.pre, last.skill_id, last.date).streaks # last.pre.streaks
    /\ db = last.pre

(***************************************************************************)
(* C14. A recording of a valid session against a skill id that no skill    *)
(* has, with the database working, fails with SkillNotFoundError and       *)
(* creates no session, no streak row and no earned badge.                  *)
(***************************************************************************)
C14_UnknownSkillNotFound ==
    (last.op = "add_practice_session" /\ ~SkillExists(last.pre, last.skill_id)
        /\ PracticeSession_validate(last.date, last.duration) = "ok"
        /\ last.raised_at = 0) =>
        /\ last.result = "SkillNotFoundError"
        /\ db.practice_sessions = last.pre.practice_sessions
        /\ db.streaks = last.pre.streaks
        /\ db.earned_badges = last.pre.earned_badges

(***************************************************************************)
(* C15. A recording whose duration text is not a number, or is a number    *)
(* <= 0, or whose date text strptime does not read as                      *)
(* 'YYYY-MM-DD HH:MM:SS', fails with ValidationError whatever the skill id *)
(* and the state of the database, and leaves sessions, skills, streak rows *)
(* and earned badges unchanged.                                            *)
(***************************************************************************)
C15_InvalidSessionRejected ==
    (last.op = "add_practice_session"
        /\ \/ last.duration = <<>>
           \/ last.date = <<>>
           \/ (last.duration # <<>> /\ last.duration[1] <= 0)) =>
        /\ last.result = "ValidationError"
        /\ db.practice_sessions = last.pre.practice_sessions
        /\ db.skills = last.pre.skills
        /\ db.streaks = last.pre.streaks
        /\ db.earned_badges = last.pre.earned_badges

\* a session of duration 0 for an existing skill was rejected before the
\* (failing) database was touched
C15_Witness ==
    /\ last.op = "add_practice_session"
    /\ last.duration = <<0>>
    /\ last.raised_at = 1
    /\ SkillExists(last.pre, last.skill_id)
    /\ last.result = "ValidationError"
    /\ db = last.pre

(***************************************************************************)
(* C16. get_skill, update_skill and delete_skill called with an id that no *)
(* skill has raise SkillNotFoundError (not DatabaseError) to the caller.   *)
(***************************************************************************)
C16_NotFoundSurfaces ==
    (last.op \in {"get_skill", "update_skill", "delete_skill"}
        /\ ~SkillExists(last.pre, last.skill_id)) =>
        last.result = "SkillNotFoundError"

(***************************************************************************)
(* C17. A deletion of skill s removes the skill, every practice session    *)
(* and every streak row with skill_id s and every earned row whose         *)
(* skill_id is s, and nothing else: the rows of the other skills and the   *)
(* earned rows with skill_id NULL stay as they were, in the same order,    *)
(* and so do the catalog and the id counter.                               *)
(***************************************************************************)
C17_DeleteCascades ==
    (last.op = "delete_skill" /\ last.result = "ok") =>
        /\ ~SkillExists(db, last.skill_id)
        /\ RowsOf(db.practice_sessions, last.skill_id) = {}
        /\ RowsOf(db.streaks, last.skill_id) = {}
        /\ RowsOf(db.earned_badges, <<last.skill_id>>) = {}
        /\ db.skills =
               SelectSeq(last.pre.skills, LAMBDA row : row.id # last.skill_id)
        /\ db.practice_sessions =
               SelectSeq(last.pre.practice_sessions, LAMBDA row : row.skill_id # last.skill_id)
        /\ db.streaks =
               SelectSeq(last.pre.streaks, LAMBDA row : row.skill_id # last.skill_id)
        /\ db.earned_badges =
               SelectSeq(last.pre.earned_badges, LAMBDA row : row.skill_id # <<last.skill_id>>)
        /\ SelectSeq(db.earned_badges, LAMBDA row : row.skill_id = NULL) =
               SelectSeq(last.pre.earned_badges, LAMBDA row : row.skill_id = NULL)
        /\ db.badges = last.pre.badges
        /\ db.seq_skills = last.pre.seq_skills

\* the deleted skill had sessions, a streak row and an earned badge; another
\* skill keeps its sessions and its earned badge, and a global badge stays
C17_Witness ==
    /\ last.op = "delete_skill"
    /\ last.result = "ok"
    /\ RowsOf(last.pre.practice_sessions, last.skill_id) # {}
    /\ RowsOf(last.pre.streaks, last.skill_id) # {}
    /\ RowsOf(last.pre.earned_badges, <<last.skill_id>>) # {}
    /\ \E other \in {db.skills[i].id : i \in DOMAIN db.skills} :
           /\ RowsOf(db.practice_sessions, other) # {}
           /\ RowsOf(db.streaks, other) # {}
           /\ RowsOf(db.earned_badges, <<other>>) # {}
    /\ RowsOf(db.earned_badges, NULL) # {}

(***************************************************************************)
(* C18. In every reachable state each skill has exactly one streak row,    *)
(* and every practice session, every streak row and every earned row with *)
(* a skill_id refers to a skill that exists.                               *)
(***************************************************************************)
C18_OwnershipOneToOne ==
    /\ \A i \in DOMAIN db.skills :
           Cardinality(RowsOf(db.streaks, db.skills[i].id)) = 1
    /\ \A i \in DOMAIN db.practice_sessions :
           SkillExists(db, db.practice_sessions[i].skill_id)
    /\ \A i \in DOMAIN db.streaks : SkillExists(db, db.streaks[i].skill_id)
    /\ \A i \in DOMAIN db.earned_badges :
           db.earned_badges[i].skill_id # NULL =>
               SkillExists(db, db.earned_badges[i].skill_id[1])

(***************************************************************************)
(* C19. total_hours of a skill never decreases while the skill exists:     *)
(* across every call it is at least what it was; a recording adds exactly  *)
(* the session's duration, which is positive, to the recorded skill and    *)
(* leaves the other skills' total_hours alone; an edit (and every call     *)
(* that fails) leaves every total_hours unchanged.                         *)
(***************************************************************************)
C19_TotalHoursMonotone ==
    /\ \A i \in DOMAIN last.pre.skills :
           SkillExists(db, last.pre.skills[i].id) =>
               SkillRow(db, last.pre.skills[i].id).total_hours
                   >= last.pre.skills[i].total_hours
    /\ Recorded =>
           /\ last.duration[1] > 0
           /\ \A i \in DOMAIN last.pre.skills :
                  SkillRow(db, last.pre.skills[i].id).total_hours =
                      IF last.pre.skills[i].id = last.skill_id
                      THEN last.pre.skills[i].total_hours + last.duration[1]
                      ELSE last.pre.skills[i].total_hours
    /\ (last.op \in {"update_skill", "get_skill"} \/ last.result # "ok") =>
           \A i \in DOMAIN last.pre.skills :
               /\ SkillExists(db, last.pre.skills[i].id)
               /\ SkillRow(db, last.pre.skills[i].id).total_hours
                      = last.pre.skills[i].total_hours

\* a skill that had hours and an Expert proficiency set by an edit received
\* a session
C19_Witness ==
    /\ Recorded
    /\ SkillExists(last.pre, last.skill_id)
    /\ SkillRow(last.pre, last.skill_id).total_hours > 0
    /\ SkillRow(last.pre, last.skill_id).proficiency = "Expert"
    /\ SkillRow(db, last.skill_id).total_hours
           = SkillRow(last.pre, last.skill_id).total_hours + last.duration[1]

(***************************************************************************)
(* C21. In every reachable state the catalog is the 12 seeded entries, in  *)
(* the order and with the ids of the seeding; init_db run again on the     *)
(* database changes no table, and no call changes the catalog.             *)
(***************************************************************************)
C21_CatalogFixed ==
    /\ db.badges = default_badges
    /\ Len(db.badges) = 12
    /\ Cardinality({db.badges[i] : i \in DOMAIN db.badges}) = 12
    /\ db.badges = last.pre.badges
    /\ last.op = "init_db" => db = last.pre

\* init_db ran again on a database that holds skills, sessions and earned
\* badges
C21_Witness ==
    /\ last.op = "init_db"
    /\ ops > 0
    /\ db.skills # <<>>
    /\ db.practice_sessions # <<>>
    /\ db.earned_badges # <<>>
    /\ Len(db.badges) = 12

(***************************************************************************)
(* C22. get_all_badges returns 12 rows, one for each badge of the catalog, *)
(* however many earned rows the badges have.                               *)
(***************************************************************************)
C22_ListsTwelve ==
    last.op = "get_all_badges" =>
        /\ Len(last.returned) = 12
        /\ \A j \in DOMAIN db.badges :
               Cardinality({k \in DOMAIN last.returned : last.returned[k].id = j}) = 1

(***************************************************************************)
(* C24. A session recorded with a timestamp earlier than the               *)
(* last_practice_date of a streak row of its skill continues the streak:   *)
(* the row's current_streak becomes the previous current_streak + 1, its   *)
(* longest_streak is raised if the new current_streak exceeds it (to at    *)
(* least the new current_streak) and is kept otherwise, and its            *)
(* last_practice_date becomes the session's earlier timestamp; on the row  *)
(* the engine reads, longest_streak becomes exactly the maximum of the     *)
(* previous longest_streak and the new current_streak.                     *)
(***************************************************************************)
C24_NegativeGapContinues ==
    Recorded =>
        \A i \in FoundRows :
            LET old == last.pre.streaks[i]
                new == db.streaks[i]
            IN  (old.last_practice_date # NULL /\ Gap(old) < 0) =>
                    /\ new.current_streak = old.current_streak + 1
                    /\ new.current_streak > old.longest_streak =>
                           new.longest_streak >= new.current_streak
                    /\ new.current_streak <= old.longest_streak =>
                           new.longest_streak = old.longest_streak
                    /\ new.longest_streak >= old.longest_streak
                    /\ i = Min(FoundRows) =>
                           new.longest_streak =
                               Max2(old.longest_streak, new.current_streak)
                    /\ new.last_practice_date = last.date
                    /\ new.last_practice_date[1] < old.last_practice_date[1]

\* a session dated 36 hours before the last practice took a streak of 7 to
\* 8 and the longest streak with it, and moved last_practice_date back
C24_Witness ==
    /\ Recorded
    /\ SkillExists(db, last.skill_id)
    /\ FoundRows # {}
    /\ \A i \in FoundRows :
           /\ last.pre.streaks[i].last_practice_date # NULL
           /\ Gap(last.pre.streaks[i]) = 0 - ThirtySixHours
           /\ last.pre.streaks[i].current_streak = 7
           /\ last.pre.streaks[i].longest_streak = 7
           /\ db.streaks[i].current_streak = 8
           /\ db.streaks[i].longest_streak = 8
           /\ db.streaks[i].last_practice_date = last.date

\* The sum of the durations of the practice sessions of d with rowid in
\* lo .. hi that belong to skill_id
RECURSIVE SumDurations(_, _, _, _)
SumDurations(d, skill_id, lo, hi) ==
    IF lo > hi THEN 0
    ELSE IF lo = hi
         THEN IF d.practice_sessions[lo].skill_id = skill_id
              THEN d.practice_sessions[lo].duration ELSE 0
         ELSE LET mid == (lo + hi) \div 2
              IN  SumDurations(d, skill_id, lo, mid) + SumDurations(d, skill_id, mid + 1, hi)

(***************************************************************************)
(* C25. In every reachable state total_hours of each skill is the sum of   *)
(* the durations of the practice sessions stored for it (0 when it has     *)
(* none); a recording appends one session, a deletion removes exactly the  *)
(* sessions of the deleted skill, and no other call changes the sessions.  *)
(***************************************************************************)
C25_TotalHoursIsSumOfSessions ==
    /\ \A i \in DOMAIN db.skills :
           db.skills[i].total_hours =
               SumDurations(db, db.skills[i].id, 1, Len(db.practice_sessions))
    /\ Recorded =>
           /\ Len(db.practice_sessions) = Len(last.pre.practice_sessions) + 1
           /\ IsPrefix(last.pre.practice_sessions, db.practice_sessions)
    /\ (last.op = "delete_skill" /\ last.result = "ok") =>
           db.practice_sessions =
               SelectSeq(last.pre.practice_sessions,
                         LAMBDA row : row.skill_id # last.skill_id)
    /\ ~(Recorded \/ (last.op = "delete_skill" /\ last.result = "ok")) =>
           db.practice_sessions = last.pre.practice_sessions

\* The streak thresholds and their criteria
StreakBadges == {<<7, "7_day_streak">>, <<30, "30_day_streak">>, <<100, "100_day_streak">>}

\* The hour thresholds and their criteria
HourBadges == {<<10, "10_hours">>, <<100, "100_hours">>}

(***************************************************************************)
(* C26. In every reachable state, for each skill: N_day_streak (N = 7, 30, *)
(* 100) has an earned row for the skill exactly when longest_streak >= N   *)
(* in the skill's streak rows, 10_hours and 100_hours exactly when         *)
(* total_hours >= 10 and >= 100, and first_practice exactly when a session *)
(* of the skill is stored.                                                 *)
(***************************************************************************)
C26_BadgeIffThresholdReached ==
    \A i \in DOMAIN db.skills :
        LET id == db.skills[i].id
        IN  /\ \A b \in StreakBadges :
                   Earned(db, b[2], <<id>>) <=>
                       /\ RowsOf(db.streaks, id) # {}
                       /\ \A r \in RowsOf(db.streaks, id) :
                              db.streaks[r].longest_streak >= b[1]
            /\ \A b \in HourBadges :
                   Earned(db, b[2], <<id>>) <=> db.skills[i].total_hours >= b[1]
            /\ Earned(db, "first_practice", <<id>>) <=>
                   RowsOf(db.practice_sessions, id) # {}

\* The date of the session of skill_id recorded last (the one with the
\* greatest rowid), NULL when the skill has no session
LastRecordedDate(d, skill_id) ==
    LET rows == RowsOf(d.practice_sessions, skill_id)
    IN  IF rows = {} THEN NULL
        ELSE d.practice_sessions[CHOOSE i \in rows : \A j \in rows : j <= i].date

(***************************************************************************)
(* C27. In every reachable state, for each skill, last_practiced of the    *)
(* skill and last_practice_date of its streak rows are both the timestamp  *)
(* of the session recorded last for the skill (NULL when it has none),     *)
(* whether or not that is the latest timestamp among its sessions.         *)
(***************************************************************************)
C27_LastPracticeIsLastRecorded ==
    \A i \in DOMAIN db.skills :
        LET id == db.skills[i].id
        IN  /\ db.skills[i].last_practiced = LastRecordedDate(db, id)
            /\ RowsOf(db.streaks, id) # {}
            /\ \A r \in RowsOf(db.streaks, id) :
                   /\ db.streaks[r].last_practice_date = LastRecordedDate(db, id)
                   /\ db.streaks[r].last_practice_date = db.skills[i].last_practiced

(***************************************************************************)
(* C28. A recording for skill A appends one session of A, changes only     *)
(* total_hours and last_practiced in the skill row of A, changes or        *)
(* appends only streak rows of A, and appends only earned rows whose       *)
(* skill_id is A or NULL: the skills table keeps its rows and ids, and the *)
(* skill row, the streak rows, the sessions and the earned rows of every   *)
(* other skill, and the catalog, are as before.                            *)
(***************************************************************************)
C28_RecordingTouchesOnlyItsSkill ==
    Recorded =>
        /\ Len(db.skills) = Len(last.pre.skills)
        /\ db.seq_skills = last.pre.seq_skills
        /\ \A i \in DOMAIN last.pre.skills :
               IF last.pre.skills[i].id # last.skill_id
               THEN db.skills[i] = last.pre.skills[i]
               ELSE /\ db.skills[i].id = last.pre.skills[i].id
                    /\ db.skills[i].proficiency = last.pre.skills[i].proficiency
        /\ Len(db.streaks) >= Len(last.pre.streaks)
        /\ \A i \in DOMAIN db.streaks :
               IF i \in DOMAIN last.pre.streaks
               THEN /\ db.streaks[i].skill_id = last.pre.streaks[i].skill_id
                    /\ db.streaks[i].skill_id # last.skill_id =>
                           db.streaks[i] = last.pre.streaks[i]
               ELSE db.streaks[i].skill_id = last.skill_id
        /\ IsPrefix(last.pre.practice_sessions, db.practice_sessions)
        /\ \A i \in DOMAIN db.practice_sessions :
               i > Len(last.pre.practice_sessions) =>
                   db.practice_sessions[i].skill_id = last.skill_id
        /\ IsPrefix(last.pre.earned_badges, db.earned_badges)
        /\ \A i \in NewEarned : db.earned_badges[i].skill_id \in {<<last.skill_id>>, NULL}
        /\ db.badges = last.pre.badges

\* a recording for one skill changed its hours and its streak row and
\* inserted a badge for it and a global badge, while another skill has
\* sessions, a practised streak row and an earned badge of its own
C28_Witness ==
    /\ Recorded
    /\ SkillExists(db, last.skill_id)
    /\ SkillRow(db, last.skill_id).total_hours > SkillRow(last.pre, last.skill_id).total_hours
    /\ streak_info(db, last.skill_id) # streak_info(last.pre, last.skill_id)
    /\ \E i \in NewEarned : db.earned_badges[i].skill_id = NULL
    /\ \E i \in NewEarned : db.earned_badges[i].skill_id = <<last.skill_id>>
    /\ \E i \in DOMAIN db.skills :
           /\ db.skills[i].id # last.skill_id
           /\ db.skills[i].total_hours > 0
           /\ RowsOf(db.practice_sessions, db.skills[i].id) # {}
           /\ RowsOf(db.earned_badges, <<db.skills[i].id>>) # {}
           /\ \E r \in RowsOf(db.streaks, db.skills[i].id) :
                  db.streaks[r].current_streak > 0

(***************************************************************************)
(* C29. create_skill and update_skill insert no earned row and leave the   *)
(* sessions, the streak rows, and total_hours and last_practiced of every  *)
(* skill that existed as they were; a successful creation appends one      *)
(* skill with total_hours 0 and no last_practiced, and one streak row      *)
(* (0, 0, NULL) for it.  So 5_skills is not earned by the creation that    *)
(* brings the count to 5, nor expert_level by the edit that sets Expert:   *)
(* each is inserted by the next recording that finds it unearned, for any  *)
(* skill id and for the Expert skill respectively.                         *)
(***************************************************************************)
C29_SkillEditsAwardNothing ==
    /\ last.op \in {"create_skill", "update_skill"} =>
           /\ db.earned_badges = last.pre.earned_badges
           /\ db.practice_sessions = last.pre.practice_sessions
           /\ IsPrefix(last.pre.streaks, db.streaks)
           /\ \A i \in DOMAIN last.pre.skills :
                  /\ db.skills[i].id = last.pre.skills[i].id
                  /\ db.skills[i].total_hours = last.pre.skills[i].total_hours
                  /\ db.skills[i].last_practiced = last.pre.skills[i].last_practiced
    /\ (last.op = "update_skill" \/ last.result # "ok") =>
           /\ Len(db.skills) = Len(last.pre.skills)
           /\ db.streaks = last.pre.streaks
    /\ (last.op = "create_skill" /\ last.result = "ok") =>
           /\ db.skills =
                  Append(last.pre.skills,
                         [ id |-> db.seq_skills, proficiency |-> last.proficiency,
                           total_hours |-> 0, last_practiced |-> NULL ])
           /\ db.streaks =
                  Append(last.pre.streaks,
                         [ skill_id |-> db.seq_skills, current_streak |-> 0,
                           longest_streak |-> 0, last_practice_date |-> NULL ])
           /\ ~SkillExists(last.pre, db.seq_skills)
    /\ Recorded =>
           /\ (Len(last.pre.skills) >= 5 /\ ~Earned(last.pre, "5_skills", NULL)) =>
                  NewlyEarned("5_skills", NULL)
           /\ ( /\ SkillExists(last.pre, last.skill_id)
                /\ SkillRow(last.pre, last.skill_id).proficiency = "Expert"
                /\ ~Earned(last.pre, "expert_level", <<last.skill_id>>) ) =>
                  NewlyEarned("expert_level", <<last.skill_id>>)
           /\ NewlyEarned("expert_level", <<last.skill_id>>) =>
                  /\ SkillExists(last.pre, last.skill_id)
                  /\ SkillRow(last.pre, last.skill_id).proficiency = "Expert"

\* the fifth skill was created with proficiency Expert while other skills
\* hold sessions and badges: no 5_skills and no expert_level row exists
C29_Witness ==
    /\ last.op = "create_skill"
    /\ last.result = "ok"
    /\ last.proficiency = "Expert"
    /\ Len(last.pre.skills) = 4
    /\ Len(db.skills) = 5
    /\ ~Earned(db, "5_skills", NULL)
    /\ ~Earned(db, "expert_level", <<db.seq_skills>>)
    /\ db.earned_badges # <<>>
    /\ db.practice_sessions # <<>>

\* The proficiency levels
Levels == {"Beginner", "Intermediate", "Advanced", "Expert"}

(***************************************************************************)
(* C23. Every stored skill has a proficiency among Beginner, Intermediate, *)
(* Advanced, Expert; create_skill and update_skill called with another     *)
(* proficiency raise ValidationError and leave the database unchanged.     *)
(***************************************************************************)
C23_ProficiencyIsALevel ==
    /\ \A i \in DOMAIN db.skills : db.skills[i].proficiency \in Levels
    /\ ( /\ last.op \in {"create_skill", "update_skill"}
         /\ last.proficiency \notin Levels
         /\ last.op = "update_skill" => SkillExists(last.pre, last.skill_id) )
       => /\ last.result = "ValidationError"
          /\ db = last.pre

(***************************************************************************)
(* Vocabulary of the concurrency properties.                               *)
(***************************************************************************)
\* Thread t is between its session insert and its commit
InTransaction(t) ==
    conns[t].pc \in {"aggregate", "select_streak", "write_streak", "badges", "commit"}

\* Both threads returned from a recording for the same skill, and both
\* calls were made on the same committed database (so neither had returned
\* when the other was called)
BothRecorded ==
    /\ \A t \in Threads : conns[t].pc = "done" /\ conns[t].result = "ok"
    /\ conns[1].skill_id = conns[2].skill_id
    /\ conns[1].submitted_on = conns[2].submitted_on

\* The database on which the two calls of BothRecorded were made
Start == conns[1].submitted_on[1]

\* Both sessions are at most 36 hours after the last_practice_date of every
\* streak row the skill had at the start
BothWithin36Hours ==
    /\ RowsOf(Start.streaks, conns[1].skill_id) # {}
    /\ \A i \in RowsOf(Start.streaks, conns[1].skill_id), t \in Threads :
           /\ Start.streaks[i].last_practice_date # NULL
           /\ 0 <= conns[t].date[1] - Start.streaks[i].last_practice_date[1]
           /\ conns[t].date[1] - Start.streaks[i].last_practice_date[1] <= ThirtySixHours

(***************************************************************************)
(* C20 as stated. Nothing but external serialization keeps two recordings  *)
(* for the same skill apart: while one thread has read the streak row and  *)
(* not yet written it, another thread that is about to record for the same *)
(* skill can execute its statements (the first of them, the session        *)
(* insert, is enabled), so that it reads the streak row before the first   *)
(* has written it.                                                         *)
(***************************************************************************)
C20_RecordingsInterleave ==
    \A t, u \in Threads :
        ( /\ t # u
          /\ conns[t].pc = "write_streak"
          /\ conns[u].pc = "insert"
          /\ conns[u].skill_id = conns[t].skill_id )
        => ENABLED Insert(u)

(***************************************************************************)
(* C20 amended. Recordings submitted concurrently do not interleave: at    *)
(* most one thread is between its session insert and its commit, every     *)
(* committed recording leaves the database that the recording alone        *)
(* produces from the database committed before it, and when both threads   *)
(* have recorded for the same skill, both within 36 hours of the skill's   *)
(* last_practice_date, the final state reflects both: two sessions more,   *)
(* both durations added, current_streak increased by 2.                    *)
(***************************************************************************)
C20_RecordingsSerialized ==
    /\ \A t, u \in Threads : (InTransaction(t) /\ InTransaction(u)) => t = u
    /\ \A t \in Threads : InTransaction(t) => lock = t
    /\ Recorded =>
           db = PracticeSession_save(last.pre, last.skill_id, last.date, last.duration[1])
    /\ BothRecorded =>
           /\ Cardinality(RowsOf(db.practice_sessions, conns[1].skill_id)) =
                  Cardinality(RowsOf(Start.practice_sessions, conns[1].skill_id)) + 2
           /\ SkillExists(Start, conns[1].skill_id) =>
                  SkillRow(db, conns[1].skill_id).total_hours =
                      SkillRow(Start, conns[1].skill_id).total_hours
                          + conns[1].duration[1] + conns[2].duration[1]
           /\ BothWithin36Hours =>
                  \A i \in RowsOf(Start.streaks, conns[1].skill_id) :
                      db.streaks[i].current_streak = Start.streaks[i].current_streak + 2

\* both threads recorded for the same skill, each called before the other
\* had committed, and the streak went from 6 to 8
C20_Witness ==
    /\ BothRecorded
    /\ BothWithin36Hours
    /\ streak_info(Start, conns[1].skill_id).current_streak = 6
    /\ streak_info(db, conns[1].skill_id).current_streak = 8
    /\ Earned(db, "7_day_streak", <<conns[1].skill_id>>)

====
